---- MODULE Spec2Model ----
\* A model of ignite/engines/engine.py: the Engine's handler table, its
\* run / epoch / iteration loop, cooperative termination and the routing of
\* exceptions through the EXCEPTION_RAISED event.
EXTENDS Integers, Sequences, FiniteSets, TLC

\* ------------------------------------------------------------------ bounds
\* Total number of registrations add_event_handler may make on one engine.
MaxRegs == 2
\* Largest max_epochs passed to run.
MaxEpochs == 2
\* Longest dataset passed to run.
MaxBatches == 2

\* ------------------------------------------------------------- vocabulary
\* class Events(Enum): the seven members.
Events ==
  {"EPOCH_STARTED", "EPOCH_COMPLETED", "STARTED", "COMPLETED",
   "ITERATION_STARTED", "ITERATION_COMPLETED", "EXCEPTION_RAISED"}

\* The event_name arguments add_event_handler is called with: the seven
\* members and one value that is no member.
EventNames == Events \cup {"not_an_event"}

\* The callables that get registered. Handlers are opaque to the engine:
\* what a handler does when invoked is an input of the invocation.
HandlerIds == {"A", "B"}

\* What one handler invocation does: return, call engine.terminate() and
\* return, or raise.
Outcomes == {"return", "terminate", "raise"}

\* Python's None for state.batch and state.output (batches are >= 1).
None == 0
\* No exception in flight.
NoErr == "none"
\* self.state before the first run.
NoState == [none |-> TRUE]

\* The datasets passed to run: for each length n the batches n, n-1, ..., 1
\* (a batch's value differs from its position as soon as n >= 2).
Datasets == {[i \in 1..n |-> n + 1 - i] : n \in 0..MaxBatches}

VARIABLES
  event_handlers,    \* self._event_handlers: event -> sequence of handlers
  should_terminate,  \* self.should_terminate
  state,             \* self.state
  pc,                \* position of the (single) thread of control
  pos,               \* number of batches the pass's iterator has yielded
                     \* (0 outside a run)
  err,               \* the exception propagating to the caller, or NoErr
  ret,               \* what _run_once_on_dataset returned: "tuple" or "None"
                     \* ("None" outside a run)
  trace              \* history of the current run: dispatches, handler
                     \* invocations, process-function calls, iterator ends

vars == <<event_handlers, should_terminate, state, pc, pos, err, ret, trace>>

\* ------------------------------------------------------------ Run State
\* A constructor that keeps the iteration counter of the state it replaces.
State_KeepsIteration(dataloader, epoch, max_epochs, metrics) ==
  [iteration |-> IF state = NoState THEN 0 ELSE state.iteration,
   output |-> None, batch |-> None,
   dataloader |-> dataloader, epoch |-> epoch, max_epochs |-> max_epochs,
   metrics |-> metrics]

\* State.__init__(**kwargs) as run calls it.
State(dataloader, epoch, max_epochs, metrics) ==
  [iteration |-> 0, output |-> None, batch |-> None,
   dataloader |-> dataloader, epoch |-> epoch, max_epochs |-> max_epochs,
   metrics |-> metrics]

\* ------------------------------------------------------------- history
\* One entry of the history, stamped with the state's batch, output and
\* counters.
Entry(k, ev, h, arg, out, st) ==
  [k |-> k, ev |-> ev, h |-> h, arg |-> arg, out |-> out,
   b |-> st.batch, o |-> st.output, it |-> st.iteration, ep |-> st.epoch]

\* A call of _fire_event.
TrFire(ev, arg, st) == Entry("fire", ev, "-", arg, "-", st)
\* One handler invocation.
TrCall(ev, h, arg, out, st) == Entry("call", ev, h, arg, out, st)
\* A call of the process function.
TrProc(out, e, st) == Entry("proc", "-", "-", e, out, st)
\* The iterator ending the pass: exhausted ("stop") or raising.
TrNext(out, e, st) == Entry("next", "-", "-", e, out, st)

\* ------------------------------------------------------- handler table
\* An add_event_handler that accepts any event name.
IsValidEvent_Any(event_name) == TRUE

\* Events.__members__.values() membership test of add_event_handler.
IsValidEvent(event_name) == event_name \in Events

\* Number of registrations in the table.
RECURSIVE TotalRegs(_, _)
TotalRegs(tbl, evs) ==
  IF evs = {} THEN 0
  ELSE LET e == CHOOSE x \in evs : TRUE
       IN Len(tbl[e]) + TotalRegs(tbl, evs \ {e})

\* The table after add_event_handler's lines 59-62.
Registered(tbl, event_name, handler) ==
  [e \in DOMAIN tbl \cup {event_name} |->
     IF e = event_name
       THEN (IF e \in DOMAIN tbl THEN tbl[e] ELSE <<>>) \o <<handler>>
       ELSE tbl[e]]

\* add_event_handler(event_name, handler): the ValueError of line 57
\* propagates to the caller, otherwise the registration is appended.
add_event_handler(event_name, handler) ==
  /\ pc = "idle"
  /\ IF ~IsValidEvent(event_name)
       THEN /\ pc' = "add_raise"
            /\ err' = "ValueError"
            /\ UNCHANGED event_handlers
       ELSE /\ TotalRegs(event_handlers, DOMAIN event_handlers) < MaxRegs
            /\ event_handlers' = Registered(event_handlers, event_name, handler)
            /\ UNCHANGED <<pc, err>>
  /\ UNCHANGED <<should_terminate, state, pos, ret, trace>>

\* The caller of add_event_handler receives the ValueError.
AddRaised ==
  /\ pc = "add_raise"
  /\ pc' = "idle"
  /\ err' = NoErr
  /\ UNCHANGED <<event_handlers, should_terminate, state, pos, ret, trace>>

\* ------------------------------------------------------------ dispatch
\* The handlers _fire_event iterates over for event_name.
HandlersOf(event_name) ==
  IF event_name \in DOMAIN event_handlers
    THEN event_handlers[event_name] ELSE <<>>

\* How many handlers a dispatch invokes when the i-th invocation does outs[i]:
\* the loop of _fire_event ends at the first handler that raises.
Invoked(outs) ==
  LET raising == {i \in 1..Len(outs) : outs[i] = "raise"}
  IN IF raising = {} THEN Len(outs)
     ELSE CHOOSE i \in raising : \A j \in raising : i <= j

\* A _fire_event that walks the list from its end.
fire_event_Reversed(event_name, arg, outs, st) ==
  LET hs == HandlersOf(event_name)
      n  == Invoked(outs)
  IN [log  |-> <<TrFire(event_name, arg, st)>> \o
               [i \in 1..n |->
                  TrCall(event_name, hs[Len(hs) + 1 - i], arg, outs[i], st)],
      term |-> \E i \in 1..n : outs[i] = "terminate",
      err  |-> IF \E i \in 1..n : outs[i] = "raise"
                 THEN "HandlerError" ELSE NoErr]

\* A _fire_event that invokes every handler of the list and raises the
\* first error afterwards.
fire_event_BestEffort(event_name, arg, outs, st) ==
  LET hs == HandlersOf(event_name)
  IN [log  |-> <<TrFire(event_name, arg, st)>> \o
               [i \in 1..Len(hs) |->
                  TrCall(event_name, hs[i], arg, outs[i], st)],
      term |-> \E i \in 1..Len(hs) : outs[i] = "terminate",
      err  |-> IF \E i \in 1..Len(hs) : outs[i] = "raise"
                 THEN "HandlerError" ELSE NoErr]

\* _fire_event(event_name, *event_args) with the handlers doing outs:
\* the history it adds, whether terminate() was called, the error it raises.
fire_event(event_name, arg, outs, st) ==
  LET hs == HandlersOf(event_name)
      n  == Invoked(outs)
  IN [log  |-> <<TrFire(event_name, arg, st)>> \o
               [i \in 1..n |-> TrCall(event_name, hs[i], arg, outs[i], st)],
      term |-> \E i \in 1..n : outs[i] = "terminate",
      err  |-> IF \E i \in 1..n : outs[i] = "raise"
                 THEN "HandlerError" ELSE NoErr]

\* Every way a dispatch of event_name can go.
Dispatches(event_name, arg, st) ==
  {fire_event(event_name, arg, outs, st) :
     outs \in [1..Len(HandlersOf(event_name)) -> Outcomes]}

\* terminate(), called from outside a run (handlers call it as an outcome
\* of their invocation).
terminate ==
  /\ pc = "idle"
  /\ ~should_terminate
  /\ should_terminate' = TRUE
  /\ UNCHANGED <<event_handlers, state, pc, pos, err, ret, trace>>

\* --------------------------------------------------- exception routing
\* _handle_exception, line 111.
HasExceptionHandler == "EXCEPTION_RAISED" \in DOMAIN event_handlers

\* A _handle_exception without its else branch: with no handler registered
\* the error is dropped.
handle_exception_Swallow(e, st) ==
  IF HasExceptionHandler
    THEN Dispatches("EXCEPTION_RAISED", e, st)
    ELSE {[log |-> <<>>, term |-> FALSE, err |-> NoErr]}

\* A _handle_exception that raises the error again whatever is registered.
handle_exception_Reraise(e, st) ==
  {[log |-> <<>>, term |-> FALSE, err |-> e]}

\* _handle_exception(e): the EXCEPTION_RAISED dispatch, or e raised again.
\* err is the error that leaves _handle_exception (NoErr: it returns).
handle_exception(e, st) ==
  IF HasExceptionHandler
    THEN Dispatches("EXCEPTION_RAISED", e, st)
    ELSE {[log |-> <<>>, term |-> FALSE, err |-> e]}

\* An unpacking that accepts the None of a pass that handled an error.
Unpack_AcceptsNone(r) == NoErr

\* The error of line 135's `hours, mins, secs = ...` for the value the pass
\* returned: None does not unpack.
Unpack(r) == IF r = "None" THEN "TypeError" ELSE NoErr

\* A step that raises nothing: control goes on at p.
Continue(p, r) ==
  {[log |-> <<>>, term |-> FALSE, err |-> NoErr, pc |-> p, ret |-> r]}

\* An except clause that dispatches COMPLETED before handling the error.
RunCatch_FiresCompleted(e, st, r) ==
  {[log |-> <<TrFire("COMPLETED", NoErr, st)>> \o h.log, term |-> h.term,
    err |-> h.err,
    pc |-> IF h.err = NoErr THEN "run_return" ELSE "run_raise", ret |-> r] :
     h \in handle_exception(e, st)}

\* An except clause that raises the error again after the dispatch.
RunCatch_Reraise(e, st, r) ==
  {[log |-> h.log, term |-> h.term,
    err |-> IF h.err = NoErr THEN e ELSE h.err,
    pc |-> "run_raise", ret |-> r] :
     h \in handle_exception(e, st)}

\* run, lines 146-150: the except clause of run for error e; run then
\* returns the state, or the error leaves run.
RunCatch(e, st, r) ==
  {[log |-> h.log, term |-> h.term, err |-> h.err,
    pc |-> IF h.err = NoErr THEN "run_return" ELSE "run_raise", ret |-> r] :
     h \in handle_exception(e, st)}

\* _run_once_on_dataset, lines 106-108: the except clause of the pass for
\* error e. Either the pass returns None to line 135, or the error goes on
\* to run's except clause.
PassCatch(e, st, r) ==
  UNION {IF h.err = NoErr
           THEN {[log |-> h.log, term |-> h.term, err |-> NoErr,
                  pc |-> "after_pass", ret |-> "None"]}
           ELSE {[log |-> h.log \o x.log, term |-> (h.term \/ x.term),
                  err |-> x.err, pc |-> x.pc, ret |-> r] :
                   x \in RunCatch(h.err, st, r)} :
         h \in handle_exception(e, st)}

\* What follows a dispatch inside run's try block.
AfterRunDispatch(f, p, st, r) ==
  IF f.err = NoErr THEN Continue(p, r) ELSE RunCatch(f.err, st, r)

\* What follows a dispatch inside the pass's try block.
AfterPassDispatch(f, p, st, r) ==
  IF f.err = NoErr THEN Continue(p, r) ELSE PassCatch(f.err, st, r)

\* ------------------------------------------------------------------ run
\* run, lines 126-131: the fresh state and the STARTED dispatch.
run(data, max_epochs) ==
  /\ pc = "idle"
  /\ LET st == State(data, 0, max_epochs, <<>>)
     IN /\ state' = st
        /\ \E f \in Dispatches("STARTED", NoErr, st) :
           \E c \in AfterRunDispatch(f, "loop", st, "None") :
             /\ trace' = f.log \o c.log
             /\ should_terminate' = (should_terminate \/ f.term \/ c.term)
             /\ err' = c.err
             /\ pc' = c.pc
             /\ ret' = c.ret
  /\ pos' = 0
  /\ UNCHANGED event_handlers

\* A loop test that does not look at should_terminate.
LoopCondition_IgnoresFlag(st, term) == st.epoch < st.max_epochs

\* A loop test that lets one epoch too many through.
LoopCondition_OffByOne(st, term) == st.epoch <= st.max_epochs /\ ~term

\* The condition of run's while loop, line 132.
LoopCondition(st, term) == st.epoch < st.max_epochs /\ ~term

\* A run that tests should_terminate right after EPOCH_STARTED.
AfterEpochStarted_Tested(term) == IF term THEN "completed" ELSE "batch"

\* Where run goes after EPOCH_STARTED, lines 134-135: into the pass, with no
\* test of should_terminate.
AfterEpochStarted(term) == "batch"

\* run, lines 132-134: the loop test, epoch += 1, the EPOCH_STARTED dispatch
\* and the entry into _run_once_on_dataset.
EpochStart ==
  /\ pc = "loop"
  /\ IF LoopCondition(state, should_terminate)
       THEN LET st == [state EXCEPT !.epoch = @ + 1]
            IN /\ state' = st
               /\ \E f \in Dispatches("EPOCH_STARTED", NoErr, st) :
                  \E c \in AfterRunDispatch(
                           f, AfterEpochStarted(should_terminate \/ f.term),
                           st, ret) :
                    /\ trace' = trace \o f.log \o c.log
                    /\ should_terminate' = (should_terminate \/ f.term \/ c.term)
                    /\ err' = c.err
                    /\ pc' = c.pc
                    /\ ret' = c.ret
               /\ pos' = 0
       ELSE /\ pc' = "completed"
            /\ UNCHANGED <<state, trace, should_terminate, err, pos, ret>>
  /\ UNCHANGED event_handlers

\* A pass that tests should_terminate right after ITERATION_STARTED.
AfterIterationStarted_Tested(term) == IF term THEN "after_pass" ELSE "process"

\* Where the pass goes after ITERATION_STARTED, lines 97-98: to the process
\* function, with no test of should_terminate.
AfterIterationStarted(term) == "process"

\* _run_once_on_dataset, lines 94-97 and 103-105: the iterator's next step.
\* It yields a batch (and ITERATION_STARTED is dispatched), is exhausted
\* (the pass returns its time tuple), or raises.
NextBatch ==
  /\ pc = "batch"
  /\ \/ /\ pos < Len(state.dataloader)
        /\ LET st == [state EXCEPT !.batch = state.dataloader[pos + 1],
                                   !.iteration = @ + 1]
           IN /\ state' = st
              /\ pos' = pos + 1
              /\ \E f \in Dispatches("ITERATION_STARTED", NoErr, st) :
                 \E c \in AfterPassDispatch(
                          f, AfterIterationStarted(should_terminate \/ f.term),
                          st, ret) :
                   /\ trace' = trace \o f.log \o c.log
                   /\ should_terminate' = (should_terminate \/ f.term \/ c.term)
                   /\ err' = c.err
                   /\ pc' = c.pc
                   /\ ret' = c.ret
     \/ /\ pos = Len(state.dataloader)
        /\ trace' = Append(trace, TrNext("stop", NoErr, state))
        /\ ret' = "tuple"
        /\ pc' = "after_pass"
        /\ UNCHANGED <<state, pos, should_terminate, err>>
     \/ /\ \E c \in PassCatch("DataError", state, ret) :
             /\ trace' = Append(trace, TrNext("raise", "DataError", state)) \o c.log
             /\ should_terminate' = (should_terminate \/ c.term)
             /\ err' = c.err
             /\ pc' = c.pc
             /\ ret' = c.ret
        /\ UNCHANGED <<state, pos>>
  /\ UNCHANGED event_handlers

\* The value the process function returns for a batch.
process_function(batch) == batch * 2

\* A pass that drops the process function's return value.
StoreOutput_Dropped(st, out) == st

\* The assignment of line 98: self.state.output = <the returned value>.
StoreOutput(st, out) == [st EXCEPT !.output = out]

\* _run_once_on_dataset, line 98: the process function returns or raises.
Process ==
  /\ pc = "process"
  /\ \/ /\ state' = StoreOutput(state, process_function(state.batch))
        /\ trace' = Append(trace, TrProc("return", NoErr, state))
        /\ pc' = "iter_completed"
        /\ UNCHANGED <<err, ret, should_terminate>>
     \/ /\ \E c \in PassCatch("ProcessError", state, ret) :
             /\ trace' = Append(trace, TrProc("raise", "ProcessError", state)) \o c.log
             /\ should_terminate' = (should_terminate \/ c.term)
             /\ err' = c.err
             /\ pc' = c.pc
             /\ ret' = c.ret
        /\ UNCHANGED state
  /\ UNCHANGED <<event_handlers, pos>>

\* A pass that goes on to the next batch whatever the flag says.
AfterIteration_NoBreak(term) == "batch"

\* Where the pass goes after ITERATION_COMPLETED, lines 100-101: break out
\* of the for loop when should_terminate is set.
AfterIteration(term) == IF term THEN "after_pass" ELSE "batch"

\* _run_once_on_dataset, lines 99-105: the ITERATION_COMPLETED dispatch and
\* the termination test; on break the pass returns its time tuple.
IterationCompleted ==
  /\ pc = "iter_completed"
  /\ \E f \in Dispatches("ITERATION_COMPLETED", NoErr, state) :
     LET p == AfterIteration(should_terminate \/ f.term)
     IN \E c \in AfterPassDispatch(f, p, state,
                                   IF p = "after_pass" THEN "tuple" ELSE ret) :
       /\ trace' = trace \o f.log \o c.log
       /\ should_terminate' = (should_terminate \/ f.term \/ c.term)
       /\ err' = c.err
       /\ pc' = c.pc
       /\ ret' = c.ret
  /\ UNCHANGED <<event_handlers, state, pos>>

\* A run that never leaves the epoch loop after the pass.
BreakAfterPass_Never(term) == FALSE

\* run, lines 137-138: break out of the epoch loop when should_terminate is
\* set after the pass.
BreakAfterPass(term) == term

\* run, lines 135-139: the unpacking of the pass's return value, the
\* termination test and the EPOCH_COMPLETED dispatch.
AfterPass ==
  /\ pc = "after_pass"
  /\ IF Unpack(ret) # NoErr
       THEN \E c \in RunCatch(Unpack(ret), state, ret) :
              /\ trace' = trace \o c.log
              /\ should_terminate' = (should_terminate \/ c.term)
              /\ err' = c.err
              /\ pc' = c.pc
       ELSE IF BreakAfterPass(should_terminate)
         THEN /\ pc' = "completed"
              /\ UNCHANGED <<trace, should_terminate, err>>
         ELSE \E f \in Dispatches("EPOCH_COMPLETED", NoErr, state) :
              \E c \in AfterRunDispatch(f, "loop", state, ret) :
                /\ trace' = trace \o f.log \o c.log
                /\ should_terminate' = (should_terminate \/ f.term \/ c.term)
                /\ err' = c.err
                /\ pc' = c.pc
  /\ UNCHANGED <<event_handlers, state, pos, ret>>

\* run, line 141: the COMPLETED dispatch.
Completed ==
  /\ pc = "completed"
  /\ \E f \in Dispatches("COMPLETED", NoErr, state) :
     \E c \in AfterRunDispatch(f, "run_return", state, ret) :
       /\ trace' = trace \o f.log \o c.log
       /\ should_terminate' = (should_terminate \/ f.term \/ c.term)
       /\ err' = c.err
       /\ pc' = c.pc
  /\ UNCHANGED <<event_handlers, state, pos, ret>>

\* run, line 150: the caller receives self.state.
Return ==
  /\ pc = "run_return"
  /\ pc' = "idle"
  /\ trace' = <<>>
  /\ pos' = 0
  /\ ret' = "None"
  /\ UNCHANGED <<event_handlers, should_terminate, state, err>>

\* run, lines 114 and 148: the caller receives the error.
Raise ==
  /\ pc = "run_raise"
  /\ pc' = "idle"
  /\ err' = NoErr
  /\ trace' = <<>>
  /\ pos' = 0
  /\ ret' = "None"
  /\ UNCHANGED <<event_handlers, should_terminate, state>>

\* ------------------------------------------------------- specification
\* Engine.__init__
Init ==
  /\ event_handlers = <<>>
  /\ should_terminate = FALSE
  /\ state = NoState
  /\ pc = "idle"
  /\ pos = 0
  /\ err = NoErr
  /\ ret = "None"
  /\ trace = <<>>

\* The callables are opaque and interchangeable, and a name only tells the
\* registrations of one list apart: the first callable registered for an
\* event is named A.
Register ==
  \E e \in EventNames, h \in HandlerIds :
    /\ (e \notin DOMAIN event_handlers => h = "A")
    /\ add_event_handler(e, h)

Run == \E d \in Datasets, n \in 1..MaxEpochs : run(d, n)

Next ==
  \/ Register
  \/ AddRaised
  \/ terminate
  \/ Run
  \/ EpochStart
  \/ NextBatch
  \/ Process
  \/ IterationCompleted
  \/ AfterPass
  \/ Completed
  \/ Return
  \/ Raise

Spec == Init /\ [][Next]_vars

\* ------------------------------------------------- reading the history
\* The history without the handler invocations: dispatches, process
\* function calls and iterator ends, in order.
IsStep(x) == x.k # "call"
Steps == SelectSeq(trace, IsStep)

IsFire(x, ev) == x.k = "fire" /\ x.ev = ev
\* Number of dispatches of ev in the current run.
Count(ev) == Cardinality({i \in 1..Len(trace) : IsFire(trace[i], ev)})
\* Something raised in the current run.
Raised == \E i \in 1..Len(trace) : trace[i].out = "raise"
\* A handler called terminate() in the current run.
TerminateCalled == \E i \in 1..Len(trace) : trace[i].out = "terminate"
\* The error a raising entry of the history raises.
ErrOf(x) == IF x.k = "call" THEN "HandlerError" ELSE x.arg

\* ------------------------------------------------------------- claims
\* C1: a run of max_epochs = N over B batches in which nothing raises and
\* should_terminate is never set (false at the start, no terminate() call)
\* returns a state with iteration = N * B and epoch = N.
C1_FullRunCounts ==
  (pc = "run_return" /\ ~should_terminate /\ ~Raised) =>
     /\ state.iteration = state.max_epochs * Len(state.dataloader)
     /\ state.epoch = state.max_epochs

C1_Witness ==
  /\ pc = "run_return" /\ ~should_terminate /\ ~Raised
  /\ state.max_epochs = 2 /\ Len(state.dataloader) = 2
  /\ state.iteration = 4 /\ state.epoch = 2

\* C2, step by step: what may precede each dispatch and each process call.
C2_Follows(a, b) ==
  CASE IsFire(b, "STARTED") -> FALSE
    [] IsFire(b, "EPOCH_STARTED") ->
         /\ IsFire(a, "STARTED") \/ IsFire(a, "EPOCH_COMPLETED")
         /\ b.ep = a.ep + 1 /\ b.it = a.it
    [] IsFire(b, "ITERATION_STARTED") ->
         /\ IsFire(a, "EPOCH_STARTED") \/ IsFire(a, "ITERATION_COMPLETED")
         /\ b.ep = a.ep /\ b.it = a.it + 1
    [] b.k = "proc" ->
         /\ IsFire(a, "ITERATION_STARTED")
         /\ b.ep = a.ep /\ b.it = a.it
    [] IsFire(b, "ITERATION_COMPLETED") ->
         /\ a.k = "proc" /\ a.out = "return"
         /\ b.ep = a.ep /\ b.it = a.it
    [] b.k = "next" ->
         /\ IsFire(a, "EPOCH_STARTED") \/ IsFire(a, "ITERATION_COMPLETED")
         /\ b.ep = a.ep /\ b.it = a.it
    [] IsFire(b, "EPOCH_COMPLETED") ->
         /\ a.k = "next" /\ a.out = "stop"
         /\ b.ep = a.ep /\ b.it = a.it
    [] OTHER -> b.ep = a.ep /\ b.it = a.it

\* C2: EPOCH_STARTED is dispatched once per epoch (each one opens the next
\* epoch number) and before the epoch's first ITERATION_STARTED;
\* EPOCH_COMPLETED is dispatched once per pass that consumed every batch
\* with no termination and no error, right after the pass, after its last
\* ITERATION_COMPLETED and before the next EPOCH_STARTED; ITERATION_STARTED,
\* the process-function call and ITERATION_COMPLETED alternate strictly.
C2_EventOrder ==
  /\ \A i \in 1..Len(Steps) :
       IF i = 1 THEN IsFire(Steps[1], "STARTED") /\ Steps[1].ep = 0
       ELSE C2_Follows(Steps[i - 1], Steps[i])
  /\ \A i \in 1..Len(trace) :
       (trace[i].k = "next" /\ trace[i].out = "stop"
          /\ ~\E j \in 1..i : trace[j].out = "terminate") =>
         IF i = Len(trace) THEN pc = "after_pass"
         ELSE /\ IsFire(trace[i + 1], "EPOCH_COMPLETED")
              /\ trace[i + 1].ep = trace[i].ep
  /\ (pc \notin {"idle", "add_raise"}) => state.epoch = Count("EPOCH_STARTED")

C2_Witness ==
  /\ pc = "run_return"
  /\ Count("EPOCH_STARTED") = 2 /\ Count("EPOCH_COMPLETED") = 1
  /\ Count("ITERATION_STARTED") = 3 /\ Count("ITERATION_COMPLETED") = 3
  /\ TerminateCalled

\* The run has ended: run is about to return the state or to raise.
RunEnded == pc \in {"run_return", "run_raise"}

\* C3: once an ITERATION_COMPLETED handler has called terminate() on
\* iteration k of epoch e, no batch is processed and no ITERATION_STARTED,
\* EPOCH_COMPLETED or EPOCH_STARTED is dispatched any more; a state that run
\* returns has epoch = e and iteration = k; and, nothing having raised, the
\* run ends by returning with COMPLETED dispatched exactly once.
C3_TerminateInIterationCompleted ==
  \A i \in 1..Len(trace) :
    (trace[i].k = "call" /\ trace[i].ev = "ITERATION_COMPLETED"
       /\ trace[i].out = "terminate") =>
      /\ \A j \in (i + 1)..Len(trace) :
           /\ trace[j].k \notin {"proc", "next"}
           /\ trace[j].ev \notin {"ITERATION_STARTED", "EPOCH_COMPLETED",
                                  "EPOCH_STARTED"}
      /\ Count("COMPLETED") <= 1
      /\ state.epoch = trace[i].ep /\ state.iteration = trace[i].it
      /\ (RunEnded /\ ~Raised) =>
           (pc = "run_return" /\ Count("COMPLETED") = 1)

C3_Witness ==
  /\ pc = "run_return" /\ ~Raised
  /\ state.max_epochs = 2 /\ Len(state.dataloader) = 2
  /\ state.epoch = 1 /\ state.iteration = 1
  /\ \E i \in 1..Len(trace) :
       /\ trace[i].k = "call" /\ trace[i].ev = "ITERATION_COMPLETED"
       /\ trace[i].out = "terminate" /\ trace[i].it = 1
  /\ Count("COMPLETED") = 1

\* C4 as amended: with no EXCEPTION_RAISED handler registered, an error E
\* raised by the process function, the dataset iteration or a handler ends
\* the run at once: nothing is dispatched or processed after it, run raises
\* E itself, EXCEPTION_RAISED is never dispatched, and COMPLETED has been
\* dispatched only when E comes from a COMPLETED handler.
C4_UnhandledErrorPropagates ==
  ~HasExceptionHandler =>
    \A i \in 1..Len(trace) :
      trace[i].out = "raise" =>
        /\ i = Len(trace)
        /\ pc = "run_raise"
        /\ err = ErrOf(trace[i])
        /\ Count("EXCEPTION_RAISED") = 0
        /\ Count("COMPLETED") > 0 =>
             (trace[i].k = "call" /\ trace[i].ev = "COMPLETED")

\* C4 as stated: with no EXCEPTION_RAISED handler registered, a run in
\* which the process function, the dataset iteration or a handler raises E
\* raises E and dispatches neither EXCEPTION_RAISED nor COMPLETED.
C4_Original ==
  (~HasExceptionHandler /\ Raised) =>
    /\ pc = "run_raise"
    /\ err = ErrOf(trace[Len(trace)])
    /\ Count("EXCEPTION_RAISED") = 0
    /\ Count("COMPLETED") = 0

C4_Witness ==
  /\ ~HasExceptionHandler
  /\ pc = "run_raise" /\ err = "ProcessError"
  /\ trace[Len(trace)].k = "proc" /\ trace[Len(trace)].it = 2
  /\ Len(state.dataloader) = 2 /\ state.max_epochs = 2

\* No EXCEPTION_RAISED handler has raised in the current run.
NoExceptionHandlerRaised ==
  \A i \in 1..Len(trace) :
    (trace[i].k = "call" /\ trace[i].ev = "EXCEPTION_RAISED") =>
      trace[i].out # "raise"

\* C5: with an EXCEPTION_RAISED handler registered (and none of them
\* raising), an error E of the process function on the k-th batch is
\* dispatched to the handler with E as the event argument, nothing but
\* EXCEPTION_RAISED dispatches follows it (no batch, no iteration, no
\* epoch), run does not raise, and the state it returns has iteration = k.
C5_HandledProcessError ==
  (HasExceptionHandler /\ NoExceptionHandlerRaised) =>
    \A i \in 1..Len(trace) :
      (trace[i].k = "proc" /\ trace[i].out = "raise") =>
        /\ pc \in {"after_pass", "run_return"}
        /\ i + 2 <= Len(trace)
        /\ IsFire(trace[i + 1], "EXCEPTION_RAISED")
        /\ trace[i + 1].arg = trace[i].arg
        /\ trace[i + 2].k = "call"
        /\ trace[i + 2].h = HandlersOf("EXCEPTION_RAISED")[1]
        /\ trace[i + 2].arg = trace[i].arg
        /\ \A j \in (i + 1)..Len(trace) : trace[j].ev = "EXCEPTION_RAISED"
        /\ trace[i].it =
             Cardinality({j \in 1..Len(trace) : trace[j].k = "proc"})
        /\ state.iteration = trace[i].it

C5_Witness ==
  /\ pc = "run_return" /\ HasExceptionHandler /\ NoExceptionHandlerRaised
  /\ state.iteration = 2
  /\ \E i \in 1..Len(trace) :
       trace[i].k = "proc" /\ trace[i].out = "raise" /\ trace[i].it = 2

\* C6 as stated: in a run that returns, in which the process function
\* raised, an EXCEPTION_RAISED handler is registered and no handler raised,
\* EXCEPTION_RAISED is dispatched exactly once and every EXCEPTION_RAISED
\* dispatch carries the process function's error.
C6_SingleExceptionDispatch ==
  (/\ pc = "run_return"
   /\ HasExceptionHandler
   /\ \E i \in 1..Len(trace) : trace[i].k = "proc" /\ trace[i].out = "raise"
   /\ \A i \in 1..Len(trace) : trace[i].k = "call" => trace[i].out # "raise")
  =>
    /\ Count("EXCEPTION_RAISED") = 1
    /\ \A i \in 1..Len(trace) :
         IsFire(trace[i], "EXCEPTION_RAISED") => trace[i].arg = "ProcessError"

\* C7, one call: what add_event_handler(e, h) leaves behind.
C7_Post(e, h) ==
  IF e \notin Events
    THEN /\ pc' = "add_raise" /\ err' = "ValueError"
         /\ event_handlers' = event_handlers
    ELSE /\ pc' = "idle" /\ err' = NoErr
         /\ DOMAIN event_handlers' = DOMAIN event_handlers \cup {e}
         /\ event_handlers'[e] = HandlersOf(e) \o <<h>>
         /\ \A o \in DOMAIN event_handlers \ {e} :
              event_handlers'[o] = event_handlers[o]

\* C7: add_event_handler with an event that is none of the seven raises and
\* leaves the table as it was (no key, no registration); with one of the
\* seven it appends one registration at the end of that event's list and
\* leaves the other lists alone.
C7_AddEventHandler ==
  [][\A e \in EventNames, h \in HandlerIds :
       add_event_handler(e, h) => C7_Post(e, h)]_vars

C7_Witness ==
  /\ pc = "add_raise" /\ err = "ValueError"
  /\ event_handlers = [ITERATION_STARTED |-> <<"A", "B">>]

\* C8, the history of one run: every dispatch invokes the handlers of the
\* event's list from its first on, in the list's order, each registration
\* once, up to the end of the list or to the first handler that raises.
C8_DispatchOrder ==
  /\ \A i \in 1..Len(trace) :
       trace[i].k = "fire" =>
         LET hs == HandlersOf(trace[i].ev)
         IN \A j \in 1..Len(hs) :
              (\A m \in 1..(j - 1) :
                 i + m <= Len(trace) /\ trace[i + m].out # "raise") =>
                /\ i + j <= Len(trace)
                /\ trace[i + j].k = "call"
                /\ trace[i + j].ev = trace[i].ev
                /\ trace[i + j].arg = trace[i].arg
                /\ trace[i + j].h = hs[j]
  /\ \A p \in 1..Len(trace) :
       trace[p].k = "call" =>
         \E j \in 1..Len(HandlersOf(trace[p].ev)) :
           /\ p - j >= 1
           /\ IsFire(trace[p - j], trace[p].ev)
           /\ \A m \in 1..(j - 1) :
                trace[p - m].k = "call" /\ trace[p - m].out # "raise"
           /\ trace[p].h = HandlersOf(trace[p].ev)[j]

\* C8: the list of an event is in registration order (each registration
\* goes to the end of its event's list) and every dispatch invokes the
\* list in that order, once per registration.
C8_RegistrationOrderDispatch ==
  /\ [][\A e \in Events, h \in HandlerIds :
          add_event_handler(e, h) =>
            event_handlers'[e] = HandlersOf(e) \o <<h>>]_vars
  /\ []C8_DispatchOrder

C8_Witness ==
  /\ pc = "run_return"
  /\ event_handlers = [ITERATION_STARTED |-> <<"A", "B">>]
  /\ Count("ITERATION_STARTED") = 4
  /\ Cardinality({i \in 1..Len(trace) :
                    trace[i].k = "call" /\ trace[i].h = "B"
                      /\ trace[i - 1].k = "call" /\ trace[i - 1].h = "A"}) = 4

\* An error was raised before COMPLETED was dispatched.
RaisedBeforeCompleted ==
  \E i \in 1..Len(trace) :
    /\ trace[i].out = "raise"
    /\ ~\E c \in 1..i : IsFire(trace[c], "COMPLETED")

\* COMPLETED is dispatched at most once and no lifecycle event follows it.
C9_CompletedLast ==
  /\ Count("COMPLETED") <= 1
  /\ \A c \in 1..Len(trace) :
       IsFire(trace[c], "COMPLETED") =>
         \A j \in (c + 1)..Len(trace) :
           trace[j].ev \in {"COMPLETED", "EXCEPTION_RAISED"}

\* C9 as amended: COMPLETED is dispatched exactly once in every run whose
\* epoch loop exits (no error before it), whoever called terminate(); it is
\* the last lifecycle event; and it is not dispatched in a run in which an
\* error was raised before the loop exit.
C9_CompletedOnce ==
  /\ C9_CompletedLast
  /\ pc = "completed" => (Count("COMPLETED") = 0 /\ ~Raised)
  /\ RunEnded => (Count("COMPLETED") = 1 <=> ~RaisedBeforeCompleted)

\* C9 as stated: COMPLETED is dispatched once when the loop exits, is the
\* last lifecycle event, and is not dispatched when an error propagates out
\* of run.
C9_Original ==
  /\ C9_CompletedLast
  /\ (RunEnded /\ ~RaisedBeforeCompleted) => Count("COMPLETED") = 1
  /\ pc = "run_raise" => Count("COMPLETED") = 0

C9_Witness ==
  /\ pc = "run_return" /\ Count("COMPLETED") = 1 /\ ~Raised
  /\ state.max_epochs = 2 /\ state.epoch = 1
  /\ \E i \in 1..Len(trace) :
       /\ trace[i].k = "call" /\ trace[i].ev = "EPOCH_STARTED"
       /\ trace[i].out = "terminate"

\* C10, one call: the state run(d, n) installs and its first dispatch.
C10_Post(d, n) ==
  /\ state' = [iteration |-> 0, epoch |-> 0, metrics |-> <<>>,
               output |-> None, batch |-> None,
               dataloader |-> d, max_epochs |-> n]
  /\ Len(trace') >= 1
  /\ trace'[1] = [k |-> "fire", ev |-> "STARTED", h |-> "-", arg |-> NoErr,
                  out |-> "-", b |-> None, o |-> None, it |-> 0, ep |-> 0]

\* C10: every run call installs a fresh state (iteration 0, epoch 0, empty
\* metrics, no batch, no output, the given data and max_epochs), whatever
\* the previous state held, and STARTED is dispatched exactly once, before
\* any other dispatch and any process-function call.
C10_FreshStateAndStarted ==
  /\ [][\A d \in Datasets, n \in 1..MaxEpochs : run(d, n) => C10_Post(d, n)]_vars
  /\ [](pc \notin {"idle", "add_raise"} =>
          (IsFire(trace[1], "STARTED") /\ Count("STARTED") = 1))

C10_Witness ==
  /\ pc = "loop" /\ Len(trace) = 1
  /\ state.iteration = 0 /\ state.epoch = 0
  /\ state.max_epochs = 2 /\ Len(state.dataloader) = 2
  /\ should_terminate

\* A run is under way (its history is being kept).
InRun == pc \notin {"idle", "add_raise"}

\* C11: state.iteration never decreases within a run and grows by exactly 1
\* per retrieved batch (each retrieved batch is followed by its
\* ITERATION_STARTED dispatch), without a reset between epochs; state.epoch
\* never exceeds max_epochs; the table's keys are among the seven Events.
C11_CounterInvariants ==
  /\ DOMAIN event_handlers \subseteq Events
  /\ state # NoState => (0 <= state.epoch /\ state.epoch <= state.max_epochs)
  /\ InRun =>
       /\ state.iteration = Count("ITERATION_STARTED")
       /\ state.iteration = trace[Len(trace)].it
       /\ \A i \in 1..Len(trace) :
            /\ trace[i].ep <= state.max_epochs
            /\ trace[i].it =
                 (IF i = 1 THEN 0 ELSE trace[i - 1].it)
                 + (IF IsFire(trace[i], "ITERATION_STARTED") THEN 1 ELSE 0)

C11_Witness ==
  /\ pc = "run_return"
  /\ DOMAIN event_handlers = {"EPOCH_STARTED", "EXCEPTION_RAISED"}
  /\ state.epoch = 2 /\ state.max_epochs = 2 /\ state.iteration = 3
  /\ Count("ITERATION_STARTED") = 3
  /\ \E i \in 1..Len(trace) :
       IsFire(trace[i], "ITERATION_STARTED") /\ trace[i].ep = 2 /\ trace[i].it = 3

\* ---------------------------------------------- the batch and the output
\* The dataset of the scenario: three batches in ascending order.
ScenarioData == <<1, 2, 3>>

\* run called with the scenario's dataset as well as with the others.
ScenarioRun ==
  \E d \in Datasets \cup {ScenarioData}, n \in 1..MaxEpochs : run(d, n)

ScenarioNext ==
  \/ Register
  \/ AddRaised
  \/ terminate
  \/ ScenarioRun
  \/ EpochStart
  \/ NextBatch
  \/ Process
  \/ IterationCompleted
  \/ AfterPass
  \/ Completed
  \/ Return
  \/ Raise

ScenarioSpec == Init /\ [][ScenarioNext]_vars

\* The ITERATION_STARTED dispatches of the history up to entry i that belong
\* to the epoch of entry i.
StartedInEpoch(i) ==
  {j \in 1..i : IsFire(trace[j], "ITERATION_STARTED") /\ trace[j].ep = trace[i].ep}

\* The last process-function call before entry i (0: there is none).
LastProc(i) ==
  LET ps == {j \in 1..(i - 1) : trace[j].k = "proc"}
  IN IF ps = {} THEN 0 ELSE CHOOSE j \in ps : \A m \in ps : m <= j

\* C12: at every ITERATION_STARTED dispatch state.batch is the batch just
\* retrieved (the next one of the dataset in this epoch), state.iteration
\* already counts it and state.output is still what the previous iteration
\* stored (nothing before the first one); at every ITERATION_COMPLETED
\* dispatch, and on return from a run that retrieved a batch and in which
\* nothing raised, state.output is the process function's value for
\* state.batch. The scenario: data [1,2,3], max_epochs = 2, nobody
\* terminating or raising, gives 6 ITERATION_STARTED and 6
\* ITERATION_COMPLETED dispatches in pairs, iteration = 6 and output = 6.
C12_BatchAndOutput ==
  InRun =>
    /\ \A i \in 1..Len(trace) :
         /\ IsFire(trace[i], "ITERATION_STARTED") =>
              /\ trace[i].b = state.dataloader[Cardinality(StartedInEpoch(i))]
              /\ trace[i].it = trace[i - 1].it + 1
              /\ trace[i].o = trace[i - 1].o
              /\ trace[i].o =
                   (IF LastProc(i) = 0 THEN None
                    ELSE process_function(trace[LastProc(i)].b))
         /\ IsFire(trace[i], "ITERATION_COMPLETED") =>
              /\ trace[i - 1].k = "proc" /\ trace[i - 1].out = "return"
              /\ Cardinality({j \in 1..i : IsFire(trace[j], "ITERATION_STARTED")})
                   = Cardinality({j \in 1..i :
                                    IsFire(trace[j], "ITERATION_COMPLETED")})
              /\ trace[i].b = trace[i - 1].b
              /\ trace[i].it = trace[i - 1].it
              /\ trace[i].o = process_function(trace[i].b)
    /\ (pc = "run_return" /\ ~Raised /\ state.iteration > 0) =>
         state.output = process_function(state.batch)
    /\ (/\ pc = "run_return" /\ ~Raised /\ ~should_terminate
        /\ state.dataloader = ScenarioData /\ state.max_epochs = 2) =>
         /\ Count("ITERATION_STARTED") = 6
         /\ Count("ITERATION_COMPLETED") = 6
         /\ state.iteration = 6
         /\ state.output = 6

C12_Witness ==
  /\ pc = "run_return" /\ ~Raised /\ ~should_terminate
  /\ state.dataloader = ScenarioData /\ state.max_epochs = 2
  /\ "ITERATION_STARTED" \in DOMAIN event_handlers
  /\ "ITERATION_COMPLETED" \in DOMAIN event_handlers
  /\ state.iteration = 6 /\ state.output = 6 /\ state.batch = 3
  /\ \E i \in 1..Len(trace) :
       /\ trace[i].k = "call" /\ trace[i].ev = "ITERATION_STARTED"
       /\ trace[i].ep = 2 /\ trace[i].it = 4 /\ trace[i].b = 1 /\ trace[i].o = 6

\* Entry i of the history is a handler of an event other than
\* EXCEPTION_RAISED raising.
HandlerRaisedAt(i) ==
  /\ trace[i].k = "call" /\ trace[i].out = "raise"
  /\ trace[i].ev # "EXCEPTION_RAISED"

\* C13: a handler that raises ends its dispatch: no handler registered after
\* it is invoked in that dispatch. When it is a handler of an event other
\* than EXCEPTION_RAISED, the step after the dispatch does not happen (after
\* an ITERATION_STARTED handler's error: no process-function call for that
\* batch, no ITERATION_COMPLETED), and the error takes the route of a
\* process-function error: with an EXCEPTION_RAISED handler registered it is
\* dispatched to it as the event argument and nothing but EXCEPTION_RAISED
\* dispatches follows (run returns unless one of those handlers raises);
\* with none registered it is raised out of run.
C13_FailFastDispatch ==
  \A i \in 1..Len(trace) :
    /\ (trace[i].k = "call" /\ trace[i].out = "raise") =>
         (i = Len(trace) \/ trace[i + 1].k = "fire")
    /\ HandlerRaisedAt(i) =>
         /\ \A j \in (i + 1)..Len(trace) :
              /\ trace[j].ev = "EXCEPTION_RAISED"
              /\ trace[j].it = trace[i].it /\ trace[j].ep = trace[i].ep
         /\ trace[i].ev = "ITERATION_STARTED" =>
              /\ ~\E j \in 1..Len(trace) :
                    trace[j].k = "proc" /\ trace[j].it = trace[i].it
              /\ ~\E j \in 1..Len(trace) :
                    /\ IsFire(trace[j], "ITERATION_COMPLETED")
                    /\ trace[j].it = trace[i].it
              /\ state.output = trace[i].o
         /\ IF HasExceptionHandler
              THEN /\ i + 2 <= Len(trace)
                   /\ IsFire(trace[i + 1], "EXCEPTION_RAISED")
                   /\ trace[i + 1].arg = "HandlerError"
                   /\ trace[i + 2].k = "call"
                   /\ trace[i + 2].arg = "HandlerError"
                   /\ NoExceptionHandlerRaised =>
                        pc \in {"after_pass", "run_return"}
              ELSE /\ i = Len(trace)
                   /\ pc = "run_raise" /\ err = "HandlerError"

C13_Witness ==
  /\ event_handlers = [ITERATION_STARTED |-> <<"A", "B">>]
  /\ pc = "run_raise" /\ err = "HandlerError"
  /\ Len(trace) >= 2
  /\ LET n == Len(trace)
     IN /\ trace[n].k = "call" /\ trace[n].h = "A" /\ trace[n].out = "raise"
        /\ trace[n].ev = "ITERATION_STARTED" /\ trace[n].it = 2
        /\ IsFire(trace[n - 1], "ITERATION_STARTED")
  /\ \E j \in 1..Len(trace) :
       trace[j].k = "call" /\ trace[j].h = "B" /\ trace[j].it = 1

\* The events run itself dispatches (outside the pass over the dataset).
RunLevelEvents == {"STARTED", "EPOCH_STARTED", "EPOCH_COMPLETED", "COMPLETED"}

\* C14: an error raised by a handler of STARTED, EPOCH_STARTED,
\* EPOCH_COMPLETED or COMPLETED ends the run at run's except clause. With an
\* EXCEPTION_RAISED handler registered, EXCEPTION_RAISED is dispatched
\* exactly once in the run, with that error, right after the raising
\* handler; no epoch, batch or other dispatch follows; and run returns the
\* state as it stood (unless an EXCEPTION_RAISED handler raises itself).
\* With none registered the same error is raised out of run.
C14_RunLevelHandlerError ==
  \A i \in 1..Len(trace) :
    (/\ trace[i].k = "call" /\ trace[i].out = "raise"
     /\ trace[i].ev \in RunLevelEvents) =>
      /\ RunEnded
      /\ state.epoch = trace[i].ep /\ state.iteration = trace[i].it
      /\ IF HasExceptionHandler
           THEN /\ Count("EXCEPTION_RAISED") = 1
                /\ i + 2 <= Len(trace)
                /\ IsFire(trace[i + 1], "EXCEPTION_RAISED")
                /\ trace[i + 1].arg = "HandlerError"
                /\ \A j \in (i + 2)..Len(trace) :
                     /\ trace[j].k = "call" /\ trace[j].ev = "EXCEPTION_RAISED"
                     /\ trace[j].arg = "HandlerError"
                /\ IF NoExceptionHandlerRaised
                     THEN pc = "run_return" /\ err = NoErr
                     ELSE pc = "run_raise"
           ELSE /\ i = Len(trace)
                /\ Count("EXCEPTION_RAISED") = 0
                /\ pc = "run_raise" /\ err = "HandlerError"

C14_Witness ==
  /\ event_handlers = [EPOCH_COMPLETED |-> <<"A">>, EXCEPTION_RAISED |-> <<"A">>]
  /\ pc = "run_return"
  /\ state.max_epochs = 2 /\ Len(state.dataloader) = 2
  /\ state.epoch = 1 /\ state.iteration = 2
  /\ Count("EXCEPTION_RAISED") = 1 /\ Count("COMPLETED") = 0
  /\ \E i \in 1..Len(trace) :
       /\ trace[i].k = "call" /\ trace[i].ev = "EPOCH_COMPLETED"
       /\ trace[i].out = "raise"

\* C15: when an ITERATION_STARTED handler calls terminate() on iteration k,
\* the iteration is not interrupted: unless something raises, the process
\* function is called for the current batch, its value is stored in
\* state.output and ITERATION_COMPLETED is dispatched for iteration k. After
\* that the pass stops: no further ITERATION_STARTED, no EPOCH_COMPLETED (and
\* no further epoch), the iteration counter stays at k.
C15_TerminationNotPreemptive ==
  \A i \in 1..Len(trace) :
    (/\ trace[i].k = "call" /\ trace[i].ev = "ITERATION_STARTED"
     /\ trace[i].out = "terminate") =>
      /\ \A j \in (i + 1)..Len(trace) :
           /\ ~IsFire(trace[j], "ITERATION_STARTED")
           /\ ~IsFire(trace[j], "EPOCH_COMPLETED")
           /\ ~IsFire(trace[j], "EPOCH_STARTED")
           /\ trace[j].k # "next"
      /\ state.iteration = trace[i].it /\ state.epoch = trace[i].ep
      /\ ~Raised =>
           /\ pc \in {"process", "iter_completed", "after_pass", "completed",
                      "run_return"}
           /\ pc # "process" =>
                /\ \E j \in (i + 1)..Len(trace) :
                     /\ trace[j].k = "proc" /\ trace[j].out = "return"
                     /\ trace[j].it = trace[i].it /\ trace[j].b = trace[i].b
                /\ state.output = process_function(trace[i].b)
           /\ pc \notin {"process", "iter_completed"} =>
                \E j \in (i + 1)..Len(trace) :
                  /\ IsFire(trace[j], "ITERATION_COMPLETED")
                  /\ trace[j].it = trace[i].it
                  /\ trace[j].o = process_function(trace[i].b)
                  /\ trace[j - 1].k = "proc"

C15_Witness ==
  /\ pc = "run_return" /\ ~Raised
  /\ state.max_epochs = 2 /\ Len(state.dataloader) = 2
  /\ state.epoch = 1 /\ state.iteration = 1 /\ state.output = 4
  /\ Count("ITERATION_COMPLETED") = 1 /\ Count("EPOCH_COMPLETED") = 0
  /\ \E i \in 1..Len(trace) :
       /\ trace[i].k = "call" /\ trace[i].ev = "ITERATION_STARTED"
       /\ trace[i].out = "terminate" /\ trace[i].it = 1

\* C16, the end of a run that never opened an epoch although no STARTED
\* handler raised (run is called with max_epochs >= 1, so the loop test
\* found should_terminate set): STARTED and COMPLETED were dispatched once
\* each, nothing else was dispatched or processed, the counters are 0, and
\* the run returns unless a COMPLETED handler raised.
C16_SkippedRun ==
  (/\ RunEnded /\ state.epoch = 0
   /\ ~\E i \in 1..Len(trace) :
         trace[i].ev = "STARTED" /\ trace[i].out = "raise") =>
    /\ should_terminate
    /\ Count("STARTED") = 1 /\ Count("COMPLETED") = 1
    /\ Count("EPOCH_STARTED") = 0 /\ Count("EPOCH_COMPLETED") = 0
    /\ Count("ITERATION_STARTED") = 0 /\ Count("ITERATION_COMPLETED") = 0
    /\ \A i \in 1..Len(trace) : trace[i].k \notin {"proc", "next"}
    /\ state.iteration = 0
    /\ ~Raised => pc = "run_return"

\* C16: no step of the engine resets should_terminate (once set it stays
\* set, across run calls too); a run whose first loop test finds it set,
\* because it was set before run was called or because a STARTED handler
\* called terminate(), goes straight to COMPLETED without opening an epoch;
\* and such a run dispatches STARTED once and COMPLETED once, no
\* EPOCH_STARTED, processes no batch and returns epoch = 0, iteration = 0.
C16_FlagNeverReset ==
  /\ [][should_terminate => should_terminate']_vars
  /\ [][(pc = "loop" /\ should_terminate) =>
          (/\ pc' = "completed" /\ state' = state /\ trace' = trace
           /\ should_terminate')]_vars
  /\ []C16_SkippedRun

C16_Witness ==
  /\ pc = "run_return" /\ should_terminate /\ ~TerminateCalled /\ ~Raised
  /\ state.max_epochs = 2 /\ Len(state.dataloader) = 2
  /\ state.epoch = 0 /\ state.iteration = 0
  /\ Count("STARTED") = 1 /\ Count("COMPLETED") = 1
  /\ "STARTED" \in DOMAIN event_handlers

\* The entries of kind k (and event ev) of the history stamped with epoch e.
InEpoch(e, k, ev) ==
  {j \in 1..Len(trace) :
     trace[j].k = k /\ trace[j].ev = ev /\ trace[j].ep = e}

\* C17: should_terminate is not tested between EPOCH_STARTED and the first
\* batch. When an EPOCH_STARTED handler calls terminate() in epoch e and the
\* dataset is not empty, then, unless something raises, exactly one batch
\* of epoch e is processed (one ITERATION_STARTED, one process-function
\* call, one ITERATION_COMPLETED, for the dataset's first batch); the pass
\* then stops, EPOCH_COMPLETED is not dispatched for epoch e, no further
\* epoch starts, and the run returns after dispatching COMPLETED once.
C17_TerminateInEpochStarted ==
  \A i \in 1..Len(trace) :
    (/\ trace[i].k = "call" /\ trace[i].ev = "EPOCH_STARTED"
     /\ trace[i].out = "terminate"
     /\ Len(state.dataloader) > 0) =>
      LET e == trace[i].ep
          started == InEpoch(e, "fire", "ITERATION_STARTED")
          procs == InEpoch(e, "proc", "-")
          completed == InEpoch(e, "fire", "ITERATION_COMPLETED")
      IN /\ state.epoch = e
         /\ Cardinality(started) <= 1 /\ Cardinality(procs) <= 1
         /\ Cardinality(completed) <= 1
         /\ \A j \in (i + 1)..Len(trace) :
              /\ ~IsFire(trace[j], "EPOCH_COMPLETED")
              /\ ~IsFire(trace[j], "EPOCH_STARTED")
              /\ trace[j].k = "next" => trace[j].out = "raise"
         /\ \A j \in started \cup procs \cup completed :
              trace[j].b = state.dataloader[1] /\ trace[j].it = trace[i].it + 1
         /\ ~Raised =>
              /\ pc \in {"batch", "process", "iter_completed", "after_pass",
                         "completed", "run_return"}
              /\ Cardinality(started) = (IF pc = "batch" THEN 0 ELSE 1)
              /\ Cardinality(procs) =
                   (IF pc \in {"batch", "process"} THEN 0 ELSE 1)
              /\ Cardinality(completed) =
                   (IF pc \in {"batch", "process", "iter_completed"}
                      THEN 0 ELSE 1)
              /\ Count("COMPLETED") = (IF pc = "run_return" THEN 1 ELSE 0)

C17_Witness ==
  /\ pc = "run_return" /\ ~Raised
  /\ state.max_epochs = 2 /\ state.dataloader = <<2, 1>>
  /\ state.epoch = 1 /\ state.iteration = 1
  /\ state.batch = 2 /\ state.output = 4
  /\ Count("ITERATION_STARTED") = 1 /\ Count("ITERATION_COMPLETED") = 1
  /\ Count("EPOCH_COMPLETED") = 0 /\ Count("COMPLETED") = 1
  /\ \E i \in 1..Len(trace) :
       /\ trace[i].k = "call" /\ trace[i].ev = "EPOCH_STARTED"
       /\ trace[i].out = "terminate" /\ trace[i].ep = 1

\* Entry i of the history is an error raised inside the pass over the
\* dataset: by the process function, by the iterator, or by a handler of
\* ITERATION_STARTED or ITERATION_COMPLETED.
PassErrorAt(i) ==
  /\ trace[i].out = "raise"
  /\ \/ trace[i].k \in {"proc", "next"}
     \/ /\ trace[i].k = "call"
        /\ trace[i].ev \in {"ITERATION_STARTED", "ITERATION_COMPLETED"}

\* C18: with an EXCEPTION_RAISED handler registered, after an error raised
\* inside the pass the run dispatches the error to EXCEPTION_RAISED and
\* then no ITERATION_STARTED, ITERATION_COMPLETED, EPOCH_STARTED,
\* EPOCH_COMPLETED or COMPLETED any more (nothing but EXCEPTION_RAISED
\* dispatches follows and no batch is retrieved or processed); the epoch and
\* iteration counters stay where the error occurred; and the run ends,
\* returning the state unless an EXCEPTION_RAISED handler raised.
C18_NoLifecycleAfterHandledError ==
  HasExceptionHandler =>
    \A i \in 1..Len(trace) :
      PassErrorAt(i) =>
        /\ i < Len(trace)
        /\ IsFire(trace[i + 1], "EXCEPTION_RAISED")
        /\ trace[i + 1].arg = ErrOf(trace[i])
        /\ \A j \in (i + 1)..Len(trace) :
             trace[j].k \in {"fire", "call"} /\ trace[j].ev = "EXCEPTION_RAISED"
        /\ Count("COMPLETED") = 0
        /\ state.epoch = trace[i].ep /\ state.iteration = trace[i].it
        /\ pc \in {"after_pass", "run_return", "run_raise"}
        /\ pc = "run_raise" => ~NoExceptionHandlerRaised
        /\ (RunEnded /\ NoExceptionHandlerRaised) => pc = "run_return"

C18_Witness ==
  /\ pc = "run_return" /\ HasExceptionHandler /\ NoExceptionHandlerRaised
  /\ ~should_terminate
  /\ state.max_epochs = 2 /\ Len(state.dataloader) = 2
  /\ state.epoch = 1 /\ state.iteration = 1
  /\ trace[Len(trace)].ev = "EXCEPTION_RAISED"
  /\ \E i \in 1..Len(trace) :
       /\ trace[i].k = "next" /\ trace[i].out = "raise"
       /\ trace[i].arg = "DataError" /\ trace[i].ep = 1

\* ------------------------------------------------------------ termination
\* The steps of run's own thread of control. Handlers and the process
\* function always come back (by returning or by raising), so a run that
\* has started takes its next step; registering, terminate() from outside
\* and calling run are up to the caller.
RunStep ==
  \/ EpochStart
  \/ NextBatch
  \/ Process
  \/ IterationCompleted
  \/ AfterPass
  \/ Completed
  \/ Return
  \/ Raise

\* Whether a run ends does not depend on which callable is registered, only
\* on how many are registered for each event and on what each invocation
\* does: here every registration is of the callable A.
FairRegister == \E e \in EventNames : add_event_handler(e, "A")

FairNext ==
  \/ FairRegister
  \/ AddRaised
  \/ terminate
  \/ Run
  \/ RunStep

FairSpec == Init /\ [][FairNext]_vars /\ WF_vars(RunStep)

\* Number of process-function calls in the current run.
ProcessCalls == Cardinality({i \in 1..Len(trace) : trace[i].k = "proc"})

\* The resources of a run: at most max_epochs passes and at most
\* max_epochs * B process-function calls.
C19_Bounded ==
  InRun =>
    /\ Count("EPOCH_STARTED") <= state.max_epochs
    /\ ProcessCalls <= state.max_epochs * Len(state.dataloader)
    /\ ProcessCalls <= state.iteration
    /\ pos <= Len(state.dataloader)

\* C19: at any time the run under way, if there is one, is eventually over
\* (run has returned the state or raised, and control is back at the
\* caller), whatever the handlers do (return, call terminate(), raise),
\* after at most max_epochs passes and at most max_epochs * B
\* process-function calls.
C19_RunTerminates ==
  /\ []<>(~InRun)
  /\ []C19_Bounded

C19_Witness ==
  /\ pc = "run_raise" /\ TerminateCalled
  /\ state.max_epochs = 2 /\ Len(state.dataloader) = 2
  /\ Count("EPOCH_STARTED") = 2 /\ ProcessCalls = 4
  /\ trace[Len(trace)].ev = "COMPLETED"

====
